---- MODULE Spec2Model ----
(***************************************************************************)
(* A model of the Scorpion scraper: the match-ingestion script             *)
(* (scrape_matches.py: page fetch, stage extraction, the worker pool of    *)
(* get_tournament_matches, the merge into scraped_matches.parquet) and the *)
(* tournament-catalog script (scrape_tournament_urls.py: the retrying      *)
(* fetch_page, the overview-page loop, the type lookup and the CSV append).*)
(***************************************************************************)
EXTENDS Integers, Sequences, FiniteSets, TLC

(***************************************************************************)
(* Values.  Python's None (and pandas' NaN/NaT) is the empty tuple, a      *)
(* present value v is the one-element tuple <<v>>, so that a nullable      *)
(* column holds values of one shape.                                       *)
(***************************************************************************)
None == <<>>

Some(v) == <<v>>

IsNull(x) == x = None

\* A float n/d, held exactly in units of 1/640 (0.9 = 576, 1/64 = 10).
Float(n, d) == (n * 640) \div d

RECURSIVE SeqSum(_)
SeqSum(s) == IF s = <<>> THEN 0 ELSE Head(s) + SeqSum(Tail(s))

\* list.extend / pd.concat of a tuple of sequences, in order
RECURSIVE Concat(_)
Concat(ss) == IF ss = <<>> THEN <<>> ELSE Head(ss) \o Concat(Tail(ss))

\* sequences over S of length at most n
SeqsUpTo(S, n) == UNION {[1..k -> S] : k \in 0..n}

Range(s) == {s[i] : i \in DOMAIN s}

\* how many positions of s hold x
Count(s, x) == Cardinality({i \in DOMAIN s : s[i] = x})

(***************************************************************************)
(* Bounds of the model.                                                    *)
(***************************************************************************)
\* longest incoming batch drawn for the merge step taken alone
MaxBatch == 2

\* longest list of tournament URLs handed to one call of get_tournament_matches
MaxUrls == 2

\* longest list of Individual tournaments the match script reads from the catalog
MaxCatalog == 1

(***************************************************************************)
(* The DataFrame rows of scrape_matches.py (columns of lines 302-318).     *)
(***************************************************************************)
MatchRow(sid, p1, p1id, p2, p2id, g1, g2, ot, stage, rnd, game, date, name, tid, seq) ==
    [StageID |-> sid, Player1 |-> p1, Player1ID |-> p1id, Player2 |-> p2,
     Player2ID |-> p2id, GoalsPlayer1 |-> g1, GoalsPlayer2 |-> g2,
     Overtime |-> ot, Stage |-> stage, RoundNumber |-> rnd,
     PlayoffGameNumber |-> game, Date |-> date, TournamentName |-> name,
     TournamentID |-> tid, StageSequence |-> seq]

\* drop_duplicates(subset=[...]) of line 401: the composite key of a row
DedupKey(r) ==
    <<r.TournamentID, r.StageID, r.Player1ID, r.Player2ID, r.GoalsPlayer1,
      r.GoalsPlayer2, r.Date>>

\* a merge that concatenates and drops nothing
KeepAllRows(rows) == rows

\* DataFrame.drop_duplicates(subset=key, keep='first'): a row survives when no
\* earlier row has its key (null key fields compare equal to each other)

DropDuplicates(rows) ==
    LET idx == {i \in DOMAIN rows :
                  \A j \in 1..(i - 1) : DedupKey(rows[j]) # DedupKey(rows[i])}
        F[k \in 0..Len(rows)] ==
            IF k = 0 THEN <<>>
            ELSE IF k \in idx THEN Append(F[k - 1], rows[k]) ELSE F[k - 1]
    IN F[Len(rows)]

\* line 338: df[~((Stage == 'Playoff') & (GoalsPlayer1 == GoalsPlayer2))]
IsPlayoffDraw(r) == r.Stage = "Playoff" /\ r.GoalsPlayer1 = r.GoalsPlayer2

KeepPlayoffDraws(rows) == rows

RemovePlayoffDraws(rows) ==
    LET Keep(r) == ~IsPlayoffDraw(r) IN SelectSeq(rows, Keep)

(***************************************************************************)
(* sort_values(by=[Date, StageSequence, RoundNumber, PlayoffGameNumber],   *)
(* na_position='last'), lines 334-335: a stable lexicographic sort.        *)
(***************************************************************************)
\* a date string 'YYYY-MM-DD' is the tuple <<y, m, d>>; strings compare by text
DateLess(a, b) ==
    \/ a[1] < b[1]
    \/ a[1] = b[1] /\ a[2] < b[2]
    \/ a[1] = b[1] /\ a[2] = b[2] /\ a[3] < b[3]

IntLess(a, b) == a < b

\* one nullable column, nulls last: -1 before, 0 tie, 1 after
CmpOpt(a, b, dates) ==
    LET Less(x, y) == IF dates THEN DateLess(x, y) ELSE IntLess(x, y)
    IN IF IsNull(a) /\ IsNull(b) THEN 0
       ELSE IF IsNull(a) THEN 1
       ELSE IF IsNull(b) THEN -1
       ELSE IF Less(a[1], b[1]) THEN -1
       ELSE IF Less(b[1], a[1]) THEN 1
       ELSE 0

SortBefore(r, s) ==
    LET c1 == CmpOpt(r.Date, s.Date, TRUE)
        c2 == CmpOpt(r.StageSequence, s.StageSequence, FALSE)
        c3 == CmpOpt(r.RoundNumber, s.RoundNumber, FALSE)
        c4 == CmpOpt(r.PlayoffGameNumber, s.PlayoffGameNumber, FALSE)
    IN \/ c1 = -1
       \/ c1 = 0 /\ c2 = -1
       \/ c1 = 0 /\ c2 = 0 /\ c3 = -1
       \/ c1 = 0 /\ c2 = 0 /\ c3 = 0 /\ c4 = -1

\* insert r after every row that does not sort strictly after it (stable)
RECURSIVE InsertSorted(_, _)
InsertSorted(r, sorted) ==
    IF sorted = <<>> THEN <<r>>
    ELSE IF SortBefore(r, Head(sorted)) THEN <<r>> \o sorted
    ELSE <<Head(sorted)>> \o InsertSorted(r, Tail(sorted))

RECURSIVE SortValues(_)
SortValues(rows) ==
    IF rows = <<>> THEN <<>>
    ELSE InsertSorted(rows[Len(rows)], SortValues(SubSeq(rows, 1, Len(rows) - 1)))

(***************************************************************************)
(* The parquet file and the merge of __main__, lines 397-404.              *)
(* A file is [exists, complete, rows]: complete is FALSE while a write to  *)
(* it is under way (to_parquet writes the target path in place).           *)
(***************************************************************************)
NoFile == [exists |-> FALSE, complete |-> TRUE, rows |-> <<>>]

FileOf(rows) == [exists |-> TRUE, complete |-> TRUE, rows |-> rows]

\* what lines 398-404 leave in the file once to_parquet has returned
MergedRows(existing, incoming) ==
    IF existing.exists
    THEN DropDuplicates(existing.rows \o incoming)
    ELSE incoming

(***************************************************************************)
(* Text.  A Python str is a tuple of tokens: single characters, and the    *)
(* multi-character markers the code looks for ("(OT)", "(W.O)", "Tour",    *)
(* "nbsp" for U+00A0, "nl" for a newline) taken as one token each.         *)
(***************************************************************************)
Digits == {"0", "1", "2", "3", "4", "5", "6", "7", "8", "9"}

DigitVal(c) ==
    CASE c = "0" -> 0 [] c = "1" -> 1 [] c = "2" -> 2 [] c = "3" -> 3
      [] c = "4" -> 4 [] c = "5" -> 5 [] c = "6" -> 6 [] c = "7" -> 7
      [] c = "8" -> 8 [] c = "9" -> 9

\* str.isdigit()
isdigit(s) == s # <<>> /\ \A i \in DOMAIN s : s[i] \in Digits

\* int(s) of a string of digits
RECURSIVE DigitsToInt(_)
DigitsToInt(s) ==
    IF s = <<>> THEN 0
    ELSE 10 * DigitsToInt(SubSeq(s, 1, Len(s) - 1)) + DigitVal(s[Len(s)])

\* str.strip(): blanks off both ends
RECURSIVE lstrip(_)
lstrip(s) == IF s # <<>> /\ Head(s) \in {" ", "nl"} THEN lstrip(Tail(s)) ELSE s

RECURSIVE rstrip(_)
rstrip(s) ==
    IF s # <<>> /\ s[Len(s)] \in {" ", "nl"}
    THEN rstrip(SubSeq(s, 1, Len(s) - 1)) ELSE s

strip(s) == rstrip(lstrip(s))

\* int(s) accepts surrounding blanks and one sign; anything else is ValueError
IntParsable(s) ==
    LET t == strip(s)
    IN \/ isdigit(t)
       \/ Len(t) >= 2 /\ t[1] \in {"-", "+"} /\ isdigit(Tail(t))

ParseInt(s) ==
    LET t == strip(s)
    IN IF isdigit(t) THEN DigitsToInt(t)
       ELSE IF t[1] = "-" THEN 0 - DigitsToInt(Tail(t))
       ELSE DigitsToInt(Tail(t))

\* str.split(sep): the parts between the separators
RECURSIVE split(_, _)
split(s, sep) ==
    IF s = <<>> THEN << <<>> >>
    ELSE LET rest == split(Tail(s), sep)
         IN IF Head(s) = sep THEN << <<>> >> \o rest
            ELSE << <<Head(s)>> \o Head(rest) >> \o Tail(rest)

\* 'x in s' for a one-token x
Contains(s, x) == \E i \in DOMAIN s : s[i] = x

\* clean_score_text (lines 32-43) and the same chain at lines 182-188
Decorations == {"(OT)", "(W.O)", "nbsp", "*", "nl"}

clean_score_text(score_text) ==
    LET Kept(c) == c \notin Decorations IN SelectSeq(score_text, Kept)

\* lines 129-150 / 181-209 for one score cell: the parsed score, or None when
\* the cell has no ':' or map(int, ...) / the two-name unpacking raise ValueError
ParseScore(text) ==
    IF ~Contains(text, ":") THEN None
    ELSE LET parts == split(clean_score_text(text), ":")
         IN IF Len(parts) = 2 /\ IntParsable(parts[1]) /\ IntParsable(parts[2])
            THEN Some([g1 |-> ParseInt(parts[1]), g2 |-> ParseInt(parts[2]),
                       overtime |-> IF Contains(text, "(OT)") THEN "Yes" ELSE "No"])
            ELSE None

(***************************************************************************)
(* get_playoff_stage_fraction, lines 45-52, over PLAYOFF_STAGE_MAP (16-25).*)
(* A subheader label is a token: the lower-cased label either contains a   *)
(* lower-cased key of the map or not, as the table below says.             *)
(***************************************************************************)
PLAYOFF_STAGE_MAP ==
    << <<"1/64 final", Float(1, 64)>>, <<"1/32 final", Float(1, 32)>>,
       <<"1/16 final", Float(1, 16)>>, <<"1/8 final", Float(1, 8)>>,
       <<"quarterfinal", Float(1, 4)>>, <<"semi-final", Float(1, 2)>>,
       <<"final", Float(1, 1)>>, <<"match for the third place", Float(9, 10)>> >>

\* key.lower() in stage_name.strip().lower(), for the labels of the model
KeyInLabel(key, label) ==
    CASE label = "Final" -> key = "final"
      [] label = "FINAL" -> key = "final"
      [] label = "Quarterfinal" -> key \in {"quarterfinal", "final"}
      [] label = "Semi-final" -> key \in {"semi-final", "final"}
      [] label = "Semifinal" -> key = "final"
      [] label = "1/8 final" -> key \in {"1/8 final", "final"}
      [] label = "1/16 final" -> key \in {"1/16 final", "final"}
      [] label = "1/32 final" -> key \in {"1/32 final", "final"}
      [] label = "1/64 final" -> key \in {"1/64 final", "final"}
      [] label = "Match for the third place" -> key = "match for the third place"
      [] OTHER -> FALSE

\* a lookup that answers with the size of the round instead of its fraction
get_playoff_stage_size(stage_name) ==
    IF \E i \in DOMAIN PLAYOFF_STAGE_MAP : KeyInLabel(PLAYOFF_STAGE_MAP[i][1], stage_name)
    THEN Some(Float(2, 1)) ELSE None

get_playoff_stage_fraction(stage_name) ==
    LET hits == {i \in DOMAIN PLAYOFF_STAGE_MAP :
                   KeyInLabel(PLAYOFF_STAGE_MAP[i][1], stage_name)}
    IN IF hits = {} THEN None
       ELSE LET first == CHOOSE i \in hits : \A j \in hits : i <= j
            IN Some(PLAYOFF_STAGE_MAP[first][2])

(***************************************************************************)
(* Stage documents.  A document is a tuple of elements in document order:  *)
(*   [kind |-> "subheader", saved, label]                                  *)
(*   [kind |-> "gr_match",  saved, series]   series: tr.series-container   *)
(*   [kind |-> "grTable",   saved, header, rows]                           *)
(* saved marks an element inside the div.saved-matches section.  A player  *)
(* cell is [cell, link, text, href_id]: whether the td exists, whether it  *)
(* holds an <a>, the text, and the digits of /user/id/<digits>/ (or None). *)
(***************************************************************************)
\* lines 90-93: the saved-matches section is removed before anything is read
decompose_saved(doc) ==
    LET Kept(e) == ~e.saved IN SelectSeq(doc, Kept)

\* extract_name_and_id, lines 54-67
extract_name_and_id(a_tag) ==
    IF ~a_tag.link THEN [name |-> None, id |-> None]
    ELSE [name |-> Some(strip(a_tag.text)), id |-> a_tag.href_id]

\* a classification by the presence of a subheader
has_subheader(soup) == \E i \in DOMAIN soup : soup[i].kind = "subheader"

\* line 98, on the document without its saved-matches section
is_playoff(soup) ==
    \E i \in DOMAIN soup : soup[i].kind = "gr_match" /\ soup[i].series # <<>>

\* lines 126-150 for one series row: a tuple per game cell but the last
SerieMatches(url, serie, playoff_fraction) ==
    IF Len(serie.players) < 2 THEN <<>>
    ELSE LET p1 == extract_name_and_id(serie.players[1])
             p2 == extract_name_and_id(serie.players[2])
             n == Len(serie.scores)
             One(game_number) ==
                 LET sc == ParseScore(serie.scores[game_number])
                 IN IF IsNull(sc) THEN <<>>
                    ELSE << [url |-> url, Player1 |-> p1.name, Player1ID |-> p1.id,
                             Player2 |-> p2.name, Player2ID |-> p2.id,
                             GoalsPlayer1 |-> sc[1].g1, GoalsPlayer2 |-> sc[1].g2,
                             Overtime |-> sc[1].overtime, Stage |-> "Playoff",
                             RoundNumber |-> playoff_fraction,
                             PlayoffGameNumber |-> Some(game_number)] >>
         IN IF n = 0 THEN <<>> ELSE Concat([g \in 1..(n - 1) |-> One(g)])

\* the subheader that find_previous_sibling gives for element j, or 0
PreviousSubheader(soup, j) ==
    LET before == {k \in 1..(j - 1) : soup[k].kind = "subheader"}
    IN IF before = {} THEN 0 ELSE CHOOSE k \in before : \A l \in before : l <= k

\* lines 108-113: the gr_match blocks after subheader i, up to the first one
\* whose previous subheader is another (bs4 compares tags by content)
BlocksOf(soup, i) ==
    LET after == {j \in (i + 1)..Len(soup) : soup[j].kind = "gr_match"}
        Other(j) == LET k == PreviousSubheader(soup, j)
                    IN k # 0 /\ soup[k].label # soup[i].label
        stop == {j \in after : Other(j)}
    IN {j \in after : \A s \in stop : j < s}

\* lines 100-150
PlayoffMatches(url, soup) ==
    LET OfBlock(j, fraction) ==
            Concat([s \in DOMAIN soup[j].series |->
                      SerieMatches(url, soup[j].series[s], fraction)])
        OfSub(i) ==
            IF soup[i].kind # "subheader" THEN <<>>
            ELSE LET fraction == get_playoff_stage_fraction(soup[i].label)
                     blocks == BlocksOf(soup, i)
                 IN Concat([j \in 1..Len(soup) |->
                              IF j \in blocks THEN OfBlock(j, fraction) ELSE <<>>])
    IN Concat([i \in 1..Len(soup) |-> OfSub(i)])

\* lines 156-162: the tour number of a table, from re.search(r'(\d+)\s*Tour', ...)
\* on the text of its 'Tour' header (None: no such header, or no number before it)
TourNumber(header) ==
    IF IsNull(header) THEN None
    ELSE LET text == header[1]
             tours == {k \in DOMAIN text : text[k] = "Tour"}
             Blank(c) == c \in {" ", "nl", "nbsp"}
             \* the digits that end right before the blanks before position k
             EndOfDigits(k) ==
                 LET nb == {j \in 1..(k - 1) : ~Blank(text[j])}
                 IN IF nb = {} THEN 0 ELSE CHOOSE j \in nb : \A l \in nb : l <= j
             StartOfDigits(e) ==
                 LET nd == {j \in 1..e : text[j] \notin Digits}
                 IN IF nd = {} THEN 1 ELSE (CHOOSE j \in nd : \A l \in nd : l <= j) + 1
             Good(k) == EndOfDigits(k) # 0 /\ text[EndOfDigits(k)] \in Digits
             good == {k \in tours : Good(k)}
         IN IF good = {} THEN None
            ELSE LET k == CHOOSE x \in good : \A y \in good : x <= y
                     e == EndOfDigits(k)
                 IN Some(Float(DigitsToInt(SubSeq(text, StartOfDigits(e), e)), 1))

\* lines 166-178 for one player cell: the name and id, or an AttributeError when
\* there is no usable <a> and no td to fall back to
PlayerOf(cell) ==
    LET a == extract_name_and_id(cell)
        named == ~IsNull(a.name) /\ a.name[1] # <<>>
    IN IF named THEN [raised |-> FALSE, name |-> a.name, id |-> a.id]
       ELSE IF ~cell.cell THEN [raised |-> TRUE, name |-> None, id |-> None]
       ELSE [raised |-> FALSE, name |-> Some(strip(cell.text)), id |-> a.id]

\* lines 164-209 for one fixture row
RowMatches(url, row, round_number) ==
    LET p1 == PlayerOf(row.p1)
        p2 == PlayerOf(row.p2)
        sc == IF IsNull(row.score) THEN None ELSE ParseScore(row.score[1])
    IN IF IsNull(sc) THEN <<>>
       ELSE << [url |-> url, Player1 |-> p1.name, Player1ID |-> p1.id,
                Player2 |-> p2.name, Player2ID |-> p2.id,
                GoalsPlayer1 |-> sc[1].g1, GoalsPlayer2 |-> sc[1].g2,
                Overtime |-> sc[1].overtime, Stage |-> "Round-Robin",
                RoundNumber |-> round_number, PlayoffGameNumber |-> None] >>

\* lines 152-209
RoundRobinMatches(url, soup) ==
    LET OfTable(i) ==
            IF soup[i].kind # "grTable" THEN <<>>
            ELSE Concat([r \in DOMAIN soup[i].rows |->
                           RowMatches(url, soup[i].rows[r], TourNumber(soup[i].header))])
    IN Concat([i \in 1..Len(soup) |-> OfTable(i)])

RoundRobinRaises(soup) ==
    \E i \in DOMAIN soup :
        /\ soup[i].kind = "grTable"
        /\ \E r \in DOMAIN soup[i].rows :
               PlayerOf(soup[i].rows[r].p1).raised \/ PlayerOf(soup[i].rows[r].p2).raised

\* get_match_info, lines 69-211, on the document fetch_page returned:
\* [raised, matches]
get_match_info(url, html_content) ==
    LET soup == decompose_saved(html_content)
    IN IF is_playoff(soup)
       THEN [raised |-> FALSE, matches |-> PlayoffMatches(url, soup)]
       ELSE IF RoundRobinRaises(soup) THEN [raised |-> TRUE, matches |-> <<>>]
       ELSE [raised |-> FALSE, matches |-> RoundRobinMatches(url, soup)]

(***************************************************************************)
(* Tournament pages and fetch_tournament_data, lines 217-282.              *)
(* A tournament page is [type, name, date, stages]: the text of the        *)
(* 'Tournament type' cell, of h1#header and of the 'Date of the tournament'*)
(* cell (None when the element is missing), and the rows of               *)
(* table.stages-table, each [seq_cell, stage_sequence, sched_link,        *)
(* stage_id].  A date text 'dd.mm.yyyy' is <<d, m, y>>; any other text is  *)
(* a one-token tuple.                                                      *)
(***************************************************************************)
Unknown == <<"Unknown">>

\* str.lower() on the type texts of the model
lower(t) ==
    CASE t = "Team" -> "team" [] t = "TEAM" -> "team" [] t = "Individual" -> "individual"
      [] OTHER -> t

\* lines 225-228
tournament_type(page) == IF IsNull(page.type) THEN "Unknown" ELSE page.type[1]

\* a comparison of the type text as it is written
IsTeamAsWritten(page) == tournament_type(page) = "team"

IsTeam(page) == lower(tournament_type(page)) = "team"

\* lines 238-248: (stage_id, stage_sequence) of every row with both cells
stage_data(page) ==
    LET Listed(row) == row.seq_cell /\ row.sched_link
    IN SelectSeq(page.stages, Listed)

\* lines 265-281: one get_match_info tuple with the tournament's context
StageMatch(match, stage, date, tournament_name, tournament_id) ==
    LET Id(x) == IF ~IsNull(x) /\ isdigit(x[1]) THEN Some(DigitsToInt(x[1])) ELSE None
    IN MatchRow(IF isdigit(stage.stage_id) THEN Some(DigitsToInt(stage.stage_id)) ELSE None,
                match.Player1, Id(match.Player1ID), match.Player2, Id(match.Player2ID),
                match.GoalsPlayer1, match.GoalsPlayer2, match.Overtime, match.Stage,
                match.RoundNumber, match.PlayoffGameNumber, date, tournament_name,
                Some(DigitsToInt(tournament_id)),
                IF isdigit(stage.stage_sequence)
                THEN Some(DigitsToInt(stage.stage_sequence)) ELSE None)

(***************************************************************************)
(* Date normalisation, lines 329-331: pd.to_datetime(x, format='%d.%m.%Y', *)
(* errors='coerce') gives NaT for a text that is no such date, and         *)
(* NaT.strftime raises ValueError.                                         *)
(***************************************************************************)
DaysIn(m, y) ==
    IF m \in {4, 6, 9, 11} THEN 30
    ELSE IF m # 2 THEN 31
    ELSE IF y % 4 = 0 /\ (y % 100 # 0 \/ y % 400 = 0) THEN 29 ELSE 28

IsDate(x) ==
    /\ Len(x) = 3
    /\ x[2] \in 1..12
    /\ x[1] \in 1..DaysIn(x[2], x[3])
    /\ x[3] \in 1..9999

\* strftime('%Y-%m-%d') of the parsed date
IsoDate(x) == Some(<<x[3], x[2], x[1]>>)

NormalizeDates(rows) == [i \in DOMAIN rows |-> [rows[i] EXCEPT !.Date = IsoDate(@)]]

DatesRaise(rows) == \E i \in DOMAIN rows : ~IsDate(rows[i].Date)

\* lines 299-341 on the collected tuples: [raised, df]
BuildFrame(all) ==
    IF DatesRaise(all) THEN [raised |-> TRUE, df |-> <<>>]
    ELSE [raised |-> FALSE, df |-> RemovePlayoffDraws(SortValues(NormalizeDates(all)))]

(***************************************************************************)
(* The site the scripts read: four tournaments and their stage pages.      *)
(***************************************************************************)
PlayerA == [cell |-> TRUE, link |-> TRUE, text |-> <<"A">>, href_id |-> Some(<<"1", "0">>)]

PlayerB == [cell |-> TRUE, link |-> TRUE, text |-> <<" ", "B">>, href_id |-> Some(<<"2", "0">>)]

\* a player cell without a profile link
PlayerC == [cell |-> TRUE, link |-> FALSE, text |-> <<"C">>, href_id |-> None]

\* a profile link whose href carries no /user/id/<digits>/
PlayerD == [cell |-> TRUE, link |-> TRUE, text |-> <<"D">>, href_id |-> None]

Fixture(p1, p2, score) == [p1 |-> p1, p2 |-> p2, score |-> Some(score)]

Stage(seq, id) ==
    [seq_cell |-> TRUE, stage_sequence |-> seq, sched_link |-> TRUE, stage_id |-> id]

TournamentIds == {<<"1">>, <<"2">>, <<"3">>, <<"4">>}

TournamentPage(tournament_id) ==
    CASE tournament_id = <<"1">> ->
           [type |-> Some("Individual"), name |-> Some("Cup"), date |-> Some(<<5, 3, 2024>>),
            stages |-> <<Stage(<<"1">>, <<"1", "1">>), Stage(<<"2">>, <<"1", "2">>)>>]
      [] tournament_id = <<"2">> ->
           [type |-> None, name |-> None, date |-> Some(<<5, 3, 2024>>),
            stages |-> <<Stage(<<"1">>, <<"2", "1">>),
                         [seq_cell |-> TRUE, stage_sequence |-> <<"2">>,
                          sched_link |-> FALSE, stage_id |-> <<"2", "2">>]>>]
      [] tournament_id = <<"3">> ->
           [type |-> Some("Team"), name |-> Some("Teams"), date |-> Some(<<6, 3, 2024>>),
            stages |-> <<Stage(<<"1">>, <<"3", "1">>)>>]
      [] tournament_id = <<"4">> ->
           [type |-> Some("Individual"), name |-> Some("Open"), date |-> None,
            stages |-> <<Stage(<<"1">>, <<"4", "1">>)>>]

\* the first stage of the tournaments 1 and 2
FirstStageIds == {<<"1", "1">>, <<"2", "1">>}

StageIds == {<<"1", "1">>, <<"1", "2">>, <<"2", "1">>, <<"3", "1">>, <<"4", "1">>}

StagePage(stage_id) ==
    CASE stage_id = <<"1", "1">> ->
           \* a double round-robin: A beats B 3:2 in both tours
           << [kind |-> "grTable", saved |-> FALSE,
               header |-> Some(<<"1", " ", "Tour">>),
               rows |-> <<Fixture(PlayerA, PlayerB, <<"3", ":", "2">>)>>],
              [kind |-> "grTable", saved |-> FALSE,
               header |-> Some(<<"2", "Tour">>),
               rows |-> <<Fixture(PlayerA, PlayerB, <<"3", ":", "2">>),
                          Fixture(PlayerA, PlayerC, <<"5", ":", "2", "(OT)">>)>>],
              \* a table without a 'Tour' header
              [kind |-> "grTable", saved |-> FALSE, header |-> None,
               rows |-> <<Fixture(PlayerB, PlayerC, <<"4", ":", "1">>)>>] >>
      [] stage_id = <<"1", "2">> ->
           \* a final of three games (a drawn one, one without a score) and the total
           << [kind |-> "subheader", saved |-> FALSE, label |-> "Final"],
              [kind |-> "gr_match", saved |-> FALSE,
               series |-> << [players |-> <<PlayerA, PlayerB>>,
                              scores |-> << <<"2", ":", "2">>, <<"-">>,
                                            <<"4", ":", "2", "(OT)">>,
                                            <<"1", ":", "0">> >>] >>],
              \* a block under a subheader that names no stage of the map
              [kind |-> "subheader", saved |-> FALSE, label |-> "Placement"],
              [kind |-> "gr_match", saved |-> FALSE,
               series |-> << [players |-> <<PlayerB, PlayerD>>,
                              scores |-> << <<"3", ":", "1">>, <<"1", ":", "0">> >>] >>],
              [kind |-> "gr_match", saved |-> TRUE,
               series |-> << [players |-> <<PlayerA, PlayerB>>,
                              scores |-> << <<"4", ":", "2">>, <<"1", ":", "0">> >>] >>] >>
      [] stage_id = <<"2", "1">> ->
           << [kind |-> "grTable", saved |-> FALSE, header |-> None,
               rows |-> <<Fixture(PlayerC, PlayerD, <<"1", ":", "0">>),
                          Fixture(PlayerA, PlayerB, <<"5", ":", "x">>)>>] >>
      [] stage_id = <<"3", "1">> ->
           << [kind |-> "grTable", saved |-> FALSE, header |-> Some(<<"1", " ", "Tour">>),
               rows |-> <<Fixture(PlayerA, PlayerB, <<"1", ":", "1">>)>>] >>
      [] stage_id = <<"4", "1">> ->
           << [kind |-> "grTable", saved |-> FALSE, header |-> Some(<<"Tour">>),
               rows |-> <<Fixture(PlayerB, PlayerA, <<"2", ":", "1">>)>>] >>

\* what BeautifulSoup makes of an error body: none of the elements looked for
ErrorTournamentPage == [type |-> None, name |-> None, date |-> None, stages |-> <<>>]

ErrorStagePage == <<>>

TournamentUrl(tournament_id) == <<"tournament", tournament_id>>

StageUrl(stage_id) == <<"stage", stage_id>>

\* what session.get can do for one request (scrape_matches.fetch_page, 27-30)
Outcomes == {"ok", "http_error", "exception"}

(***************************************************************************)
(* State.                                                                  *)
(***************************************************************************)
VARIABLES
    pc,                  \* where the match script / the caller is
    tournament_urls,     \* get_tournament_matches: the ids of the URLs handed in
    existing_stage_ids,  \* get_tournament_matches: its second argument
    task,                \* one submitted fetch_tournament_data per URL
    collected,           \* the futures as_completed has already yielded
    all_matches,         \* line 214
    printed,             \* the URLs of line 297, in order
    df,                  \* the frame get_tournament_matches returned
    existing_df,         \* __main__: the file as read at line 377
    output_file,         \* data/scraped_matches.parquet
    cpc,                 \* where main() of scrape_tournament_urls.py is
    page_num,            \* main(): the overview page of the loop at line 110
    all_tournaments,     \* main(): line 109
    existing_ids,        \* main(): line 126
    new_tournaments,     \* main(): line 127
    ti,                  \* main(): the position of the loop at line 128
    fetch_url,           \* fetch_page: the URL of the call under way, or of the last
    attempt,             \* fetch_page: the loop variable of line 22
    responses,           \* fetch_page: what each request of that call ended in
    fetch_result,        \* fetch_page: what the last call returned
    csv_file,            \* data/tournament_data.csv
    individual_tournaments, \* __main__: the catalog's Individual ids, line 370
    document,            \* get_match_info: the stage document of line 88
    match_info           \* get_match_info: what it returned (line 211) or raised

matchVars ==
    <<pc, tournament_urls, existing_stage_ids, task, collected, all_matches,
      printed, df, existing_df, output_file, individual_tournaments>>

catalogVars ==
    <<cpc, page_num, all_tournaments, existing_ids, new_tournaments, ti, fetch_url,
      attempt, responses, fetch_result, csv_file>>

parseVars == <<document, match_info>>

vars == <<matchVars, catalogVars, parseVars>>

\* ThreadPoolExecutor(max_workers=10), line 286
max_workers == 10

QueuedTask ==
    [state |-> "queued", exc |-> "", page |-> ErrorTournamentPage, stages |-> <<>>,
     k |-> 1, stage_matches |-> <<>>, requests |-> <<>>]

MatchInit ==
    /\ pc = "idle"
    /\ tournament_urls = <<>>
    /\ existing_stage_ids = {}
    /\ task = <<>>
    /\ collected = {}
    /\ all_matches = <<>>
    /\ printed = <<>>
    /\ df = <<>>
    /\ existing_df = NoFile
    /\ output_file = NoFile
    /\ individual_tournaments = <<>>

CatalogInit ==
    /\ cpc = "idle"
    /\ page_num = 1
    /\ all_tournaments = <<>>
    /\ existing_ids = {}
    /\ new_tournaments = <<>>
    /\ ti = 1
    /\ fetch_url = <<>>
    /\ attempt = 0
    /\ responses = <<>>
    /\ fetch_result = "None"
    /\ csv_file = [exists |-> FALSE, rows |-> <<>>]

\* no stage document has been read yet
ParseInit ==
    /\ document = <<>>
    /\ match_info = [raised |-> FALSE, matches |-> <<>>]

Init == MatchInit /\ CatalogInit /\ ParseInit

\* lines 214, 284-287: every URL is submitted to the pool
StartPool(urls, existing) ==
    /\ tournament_urls' = urls
    /\ existing_stage_ids' = existing
    /\ task' = [i \in DOMAIN urls |-> QueuedTask]
    /\ collected' = {}
    /\ all_matches' = <<>>
    /\ printed' = <<>>
    /\ df' = <<>>
    /\ pc' = "pool"

Running == {i \in DOMAIN task : task[i].state = "running"}

\* the response of scrape_matches.fetch_page for one request
FetchedTournament(tournament_id, out) ==
    IF out = "ok" THEN TournamentPage(tournament_id) ELSE ErrorTournamentPage

FetchedStage(stage_id, out) ==
    IF out = "ok" THEN StagePage(stage_id) ELSE ErrorStagePage

\* lines 218-228: a worker takes the task, fetches the tournament page
FetchMetadata(i, out) ==
    /\ pc = "pool"
    /\ task[i].state = "queued"
    /\ Cardinality(Running) < max_workers
    /\ LET id == tournament_urls[i]
           page == FetchedTournament(id, out)
           req == Append(task[i].requests, TournamentUrl(id))
       IN task' = [task EXCEPT ![i] =
              IF out = "exception"
              THEN [@ EXCEPT !.state = "raised", !.exc = "ConnectionError",
                             !.requests = req]
              ELSE IF IsTeam(page)
              THEN [@ EXCEPT !.state = "returned", !.page = page, !.requests = req]
              ELSE [@ EXCEPT !.state = "running", !.page = page, !.requests = req,
                             !.stages = stage_data(page)]]
    /\ UNCHANGED <<pc, tournament_urls, existing_stage_ids, collected, all_matches,
                   printed, df, existing_df, output_file, catalogVars,
                   individual_tournaments, parseVars>>

\* lines 231-235 of the task's tournament page
DateText(page) == IF IsNull(page.date) THEN Unknown ELSE page.date[1]

NameText(page) == IF IsNull(page.name) THEN "Unknown" ELSE page.name[1]

\* line 253
AlreadyIngested(stage_id, existing) == stage_id \in existing

\* line 255: get_match_info on each document the site can answer with
MatchInfo ==
    [id \in StageIds, out \in {"ok", "http_error"} |->
       get_match_info(StageUrl(id), FetchedStage(id, out))]

\* lines 251-281, one turn of the loop over stage_data
FetchStage(i, out) ==
    /\ pc = "pool"
    /\ task[i].state = "running"
    /\ task[i].k <= Len(task[i].stages)
    /\ LET t == task[i]
           stage == t.stages[t.k]
           url == StageUrl(stage.stage_id)
           info == MatchInfo[stage.stage_id, IF out = "ok" THEN "ok" ELSE "http_error"]
           rows == [m \in DOMAIN info.matches |->
                      StageMatch(info.matches[m], stage, DateText(t.page),
                                 NameText(t.page), tournament_urls[i])]
       IN IF AlreadyIngested(stage.stage_id, existing_stage_ids)
          THEN /\ out = "ok"
               /\ task' = [task EXCEPT ![i].k = @ + 1]
          ELSE task' = [task EXCEPT ![i] =
                   IF out = "exception"
                   THEN [@ EXCEPT !.state = "raised", !.exc = "ConnectionError",
                                  !.requests = Append(@, url)]
                   ELSE IF info.raised
                   THEN [@ EXCEPT !.state = "raised", !.exc = "AttributeError",
                                  !.requests = Append(@, url)]
                   ELSE [@ EXCEPT !.k = @ + 1, !.requests = Append(@, url),
                                  !.stage_matches = @ \o rows]]
    /\ UNCHANGED <<pc, tournament_urls, existing_stage_ids, collected, all_matches,
                   printed, df, existing_df, output_file, catalogVars,
                   individual_tournaments, parseVars>>

\* line 282
ReturnStageMatches(i) ==
    /\ pc = "pool"
    /\ task[i].state = "running"
    /\ task[i].k > Len(task[i].stages)
    /\ task' = [task EXCEPT ![i].state = "returned"]
    /\ UNCHANGED <<pc, tournament_urls, existing_stage_ids, collected, all_matches,
                   printed, df, existing_df, output_file, catalogVars,
                   individual_tournaments, parseVars>>

Finished == {i \in DOMAIN task : task[i].state \in {"returned", "raised"}}

\* a mutant of the except clause: the tuples of a failed task are kept too
CollectedRowsAnyway(t) == t.stage_matches

\* lines 291-297: what one yielded future adds to all_matches
CollectedRows(t) == IF t.state = "returned" THEN t.stage_matches ELSE <<>>

\* lines 288-297: as_completed yields a finished future
Collect(i) ==
    /\ pc = "pool"
    /\ i \in Finished \ collected
    /\ collected' = collected \cup {i}
    /\ all_matches' = all_matches \o CollectedRows(task[i])
    /\ printed' = IF task[i].state = "raised"
                  THEN Append(printed, tournament_urls[i]) ELSE printed
    /\ UNCHANGED <<pc, tournament_urls, existing_stage_ids, task, df, existing_df,
                   output_file, catalogVars,
                   individual_tournaments, parseVars>>

\* lines 299-341, once every future has been yielded
ReturnFrame ==
    /\ pc = "pool"
    /\ collected = DOMAIN task
    /\ LET frame == BuildFrame(all_matches)
       IN /\ pc' = IF frame.raised THEN "raised" ELSE "returned"
          /\ df' = frame.df
    /\ UNCHANGED <<tournament_urls, existing_stage_ids, task, collected, all_matches,
                   printed, existing_df, output_file, catalogVars,
                   individual_tournaments, parseVars>>

Pool ==
    \/ \E i \in DOMAIN task, out \in Outcomes : FetchMetadata(i, out)
    \/ \E i \in DOMAIN task, out \in Outcomes : FetchStage(i, out)
    \/ \E i \in DOMAIN task : ReturnStageMatches(i)
    \/ \E i \in DOMAIN task : Collect(i)
    \/ ReturnFrame

(***************************************************************************)
(* get_tournament_matches called on its own, with any arguments.           *)
(***************************************************************************)
UrlLists == SeqsUpTo(TournamentIds, MaxUrls)

InitCall ==
    /\ pc = "pool"
    /\ tournament_urls \in UrlLists
    /\ existing_stage_ids \in SUBSET FirstStageIds
    /\ task = [i \in DOMAIN tournament_urls |-> QueuedTask]
    /\ collected = {}
    /\ all_matches = <<>>
    /\ printed = <<>>
    /\ df = <<>>
    /\ existing_df = NoFile
    /\ output_file = NoFile
    /\ individual_tournaments = <<>>
    /\ CatalogInit
    /\ ParseInit

SpecCall == InitCall /\ [][Pool]_vars

\* the call has ended: it returned its frame, or raised out of lines 299-341
CallEnded == pc \in {"returned", "raised"}

(***************************************************************************)
(* C1.  In get_tournament_matches, a stage enumerated from a tournament    *)
(* page whose id is in existing_stage_ids is never fetched and gives no    *)
(* row of the returned frame, and every other enumerated stage is fetched  *)
(* exactly once.  (The claim as stated.)                                   *)
(***************************************************************************)
C1_SkippedOrFetchedOnce ==
    CallEnded =>
        \A i \in DOMAIN task : \A k \in DOMAIN task[i].stages :
            LET id == task[i].stages[k].stage_id
                fetches == Count(task[i].requests, StageUrl(id))
            IN IF id \in existing_stage_ids
               THEN /\ fetches = 0
                    /\ \A r \in DOMAIN df : df[r].StageID # Some(DigitsToInt(id))
               ELSE fetches = Cardinality({l \in DOMAIN task[i].stages :
                                             task[i].stages[l].stage_id = id})

(***************************************************************************)
(* C8.  No fetch of match ingestion ends by raising a connection-level     *)
(* exception to its caller: the fetcher retries and then returns an absent *)
(* result.  (The claim as stated, for the fetches of scrape_matches.py.)   *)
(***************************************************************************)
C8_FetchNeverRaises ==
    \A i \in DOMAIN task : task[i].exc # "ConnectionError"

(***************************************************************************)
(* C10.  When the pool's loop has ended, every submitted task has run to   *)
(* its end whatever its siblings did, all_matches holds the tuples of      *)
(* every task that returned, each exactly once, and none of a task that    *)
(* raised; the URLs of the tasks that raised are the ones reported.        *)
(***************************************************************************)
RowsOfReturned ==
    UNION {Range(task[i].stage_matches) : i \in {j \in DOMAIN task : task[j].state = "returned"}}

C10_FailureIsolated ==
    CallEnded =>
        /\ \A i \in DOMAIN task : task[i].state \in {"returned", "raised"}
        /\ Range(all_matches) = RowsOfReturned
        /\ \A r \in RowsOfReturned :
               Count(all_matches, r) =
                   SeqSum([i \in DOMAIN task |->
                             IF task[i].state = "returned"
                             THEN Count(task[i].stage_matches, r) ELSE 0])
        /\ \A u \in TournamentIds :
               Count(printed, u) =
                   Cardinality({i \in DOMAIN task :
                                  task[i].state = "raised" /\ tournament_urls[i] = u})

\* a task failed after it had gathered tuples, a sibling returned tuples
C10_Witness ==
    /\ CallEnded
    /\ \E i, j \in DOMAIN task :
           /\ task[i].state = "raised" /\ task[i].stage_matches # <<>>
           /\ task[j].state = "returned" /\ task[j].stage_matches # <<>>

(***************************************************************************)
(* The match script, __main__ of scrape_matches.py (lines 364-407).        *)
(***************************************************************************)
\* str(n) of a non-negative integer, as astype(str) writes it
DigitChar(d) ==
    CASE d = 0 -> "0" [] d = 1 -> "1" [] d = 2 -> "2" [] d = 3 -> "3" [] d = 4 -> "4"
      [] d = 5 -> "5" [] d = 6 -> "6" [] d = 7 -> "7" [] d = 8 -> "8" [] d = 9 -> "9"

RECURSIVE str(_)
str(n) == IF n < 10 THEN <<DigitChar(n)>> ELSE Append(str(n \div 10), DigitChar(n % 10))

\* line 378: set(existing_df["TournamentID"].dropna().astype(str).unique())
scraped_ids(existing) ==
    {str(existing.rows[i].TournamentID[1]) :
       i \in {j \in DOMAIN existing.rows : ~IsNull(existing.rows[j].TournamentID)}}

\* a run that scrapes every tournament of the catalog again
all_tournament_urls(urls, scraped) == urls

\* line 385
tournament_urls_to_scrape(urls, scraped) ==
    LET NotScraped(id) == id \notin scraped IN SelectSeq(urls, NotScraped)

\* the Individual tournaments of the catalog (get_individual_tournament_urls)
CatalogLists == SeqsUpTo(TournamentIds \ {<<"3">>}, MaxCatalog)

ScriptEnded == pc \in {"idle", "done", "raised", "crashed", "killed"}

\* lines 366-393: the script starts, reads the catalog and the file, and either
\* submits the tournaments left to scrape or has nothing to do
Main ==
    /\ ScriptEnded
    /\ UNCHANGED <<catalogVars, parseVars>>
    /\ \E urls \in CatalogLists :
         /\ individual_tournaments' = urls
         /\ IF output_file.exists /\ ~output_file.complete
            THEN \* pd.read_parquet raises on a file that was not written out
                 /\ pc' = "crashed"
                 /\ UNCHANGED <<tournament_urls, existing_stage_ids, task, collected,
                                all_matches, printed, df, existing_df, output_file>>
            ELSE LET to_scrape == tournament_urls_to_scrape(urls, scraped_ids(output_file))
                 IN /\ existing_df' = output_file
                    /\ IF to_scrape # <<>>
                       THEN StartPool(to_scrape, {})
                       ELSE /\ pc' = "done"
                            /\ tournament_urls' = <<>>
                            /\ task' = <<>>
                            /\ collected' = {}
                            /\ all_matches' = <<>>
                            /\ printed' = <<>>
                            /\ df' = <<>>
                            /\ UNCHANGED existing_stage_ids
                    /\ UNCHANGED output_file

\* lines 398-404, first half: to_parquet opens the target path and starts to
\* write; until it has finished the file holds no readable dataset
BeginWrite ==
    /\ pc = "returned"
    /\ pc' = "writing"
    /\ output_file' = [exists |-> TRUE, complete |-> FALSE, rows |-> <<>>]
    /\ UNCHANGED <<tournament_urls, existing_stage_ids, task, collected, all_matches,
                   printed, df, existing_df, catalogVars,
                   individual_tournaments, parseVars>>

\* lines 398-404, second half: to_parquet returns
EndWrite ==
    /\ pc = "writing"
    /\ pc' = "done"
    /\ output_file' = FileOf(MergedRows(existing_df, df))
    /\ UNCHANGED <<tournament_urls, existing_stage_ids, task, collected, all_matches,
                   printed, df, existing_df, catalogVars,
                   individual_tournaments, parseVars>>

\* the process is interrupted (killed, power loss) while it scrapes or writes
Interrupt ==
    /\ pc \in {"pool", "returned", "writing"}
    /\ pc' = "killed"
    /\ task' = <<>>
    /\ collected' = {}
    /\ all_matches' = <<>>
    /\ UNCHANGED <<tournament_urls, existing_stage_ids, printed, df, existing_df,
                   output_file, catalogVars,
                   individual_tournaments, parseVars>>

Next == Main \/ Pool \/ BeginWrite \/ EndWrite \/ Interrupt

Spec == Init /\ [][Next]_vars

(***************************************************************************)
(* The merge step taken alone: lines 397-404 applied to the file as it is  *)
(* and to any frame get_tournament_matches can return.                     *)
(***************************************************************************)
\* the tuples the first stages of the tournaments 1 and 2 give
SiteTuples ==
    LET Of(tournament_id) ==
            LET page == TournamentPage(tournament_id)
                OfStage(k) ==
                    LET stage == stage_data(page)[k]
                        info == MatchInfo[stage.stage_id, "ok"]
                    IN [m \in DOMAIN info.matches |->
                          StageMatch(info.matches[m], stage, DateText(page),
                                     NameText(page), tournament_id)]
            IN OfStage(1)
    IN Range(Of(<<"1">>)) \cup Range(Of(<<"2">>))

Frames == {BuildFrame(all).df : all \in SeqsUpTo(SiteTuples, MaxBatch)}

MergeStep ==
    /\ pc = "idle"
    /\ \E frame \in Frames :
         /\ existing_df' = output_file
         /\ df' = frame
         /\ output_file' = FileOf(MergedRows(output_file, frame))
    /\ UNCHANGED <<pc, tournament_urls, existing_stage_ids, task, collected,
                   all_matches, printed, catalogVars,
                   individual_tournaments, parseVars>>

SpecMerge == Init /\ [][MergeStep]_vars

(***************************************************************************)
(* The catalog script, scrape_tournament_urls.py.                          *)
(***************************************************************************)
\* line 12
MAX_PAGES == 5

\* line 16
RETRY_LIMIT == 3

\* the archive pages of the site, newest first: the ids of the tournament links
\* of each (tournament 2 is listed on two pages)
OverviewPage(n) ==
    CASE n = 1 -> << <<"4">>, <<"2">> >>
      [] n = 2 -> << <<"2">>, <<"1">> >>
      [] n = 3 -> << <<"3">> >>
      [] OTHER -> << <<"1">> >>

ArchiveUrl(n) == <<"archive", n>>

\* what requests.get can do for one request: a 200 response, a 200 response
\* that lists nothing, a response of another status, a RequestException
Replies == {"ok", "empty", "non200", "exception"}

\* a mutant of lines 27-29: a response of another status goes round the loop
fetch_page_retries_status(tries, reply) ==
    IF reply \in {"ok", "empty"} THEN [done |-> TRUE, result |-> "response"]
    ELSE IF tries + 1 < RETRY_LIMIT THEN [done |-> FALSE, result |-> "None"]
    ELSE [done |-> TRUE, result |-> "None"]

\* fetch_page, lines 21-33: one turn of the loop, after `tries` failed attempts:
\* whether the call ends with it, and what it then returns
fetch_page(tries, reply) ==
    IF reply \in {"ok", "empty"} THEN [done |-> TRUE, result |-> "response"]
    ELSE IF reply = "non200" THEN [done |-> TRUE, result |-> "None"]
    ELSE IF tries + 1 < RETRY_LIMIT THEN [done |-> FALSE, result |-> "None"]
    ELSE [done |-> TRUE, result |-> "None"]

\* the bookkeeping of one request of a fetch_page call
Request(u, reply) ==
    LET f == fetch_page(attempt, reply)
    IN /\ fetch_url' = u
       /\ responses' = IF attempt = 0 THEN <<reply>> ELSE Append(responses, reply)
       /\ attempt' = IF f.done THEN 0 ELSE attempt + 1
       /\ fetch_result' = IF f.done THEN f.result ELSE fetch_result

\* read_existing_ids, lines 87-95
read_existing_ids(file) ==
    IF ~file.exists THEN {} ELSE {file.rows[i].ID : i \in DOMAIN file.rows}

\* parse_tournaments_from_overview, lines 35-60, on the page the reply carries
parse_tournaments_from_overview(n, reply) ==
    IF reply = "empty" THEN <<>>
    ELSE [i \in DOMAIN OverviewPage(n) |->
            [ID |-> OverviewPage(n)[i], Name |-> NameText(TournamentPage(OverviewPage(n)[i]))]]

\* line 107: main() starts
CatalogMain ==
    /\ cpc \in {"idle", "done"}
    /\ cpc' = "pages"
    /\ page_num' = 1
    /\ all_tournaments' = <<>>
    /\ existing_ids' = {}
    /\ new_tournaments' = <<>>
    /\ ti' = 1
    /\ fetch_url' = <<>>
    /\ attempt' = 0
    /\ responses' = <<>>
    /\ fetch_result' = "None"
    /\ UNCHANGED <<csv_file, matchVars, parseVars>>

\* lines 110-126: one request of fetch_page(page_url) and, when the call ends
\* with it, the rest of the loop body
FetchOverview(reply) ==
    /\ cpc = "pages"
    /\ Request(ArchiveUrl(page_num), reply)
    /\ LET f == fetch_page(attempt, reply)
           tournaments == parse_tournaments_from_overview(page_num, reply)
           stop == f.result = "None" \/ tournaments = <<>>
       IN IF ~f.done
          THEN UNCHANGED <<cpc, page_num, all_tournaments, existing_ids>>
          ELSE /\ all_tournaments' =
                      IF stop THEN all_tournaments ELSE all_tournaments \o tournaments
               /\ IF stop \/ page_num = MAX_PAGES
                  THEN /\ cpc' = "types"
                       /\ existing_ids' = read_existing_ids(csv_file)
                       /\ UNCHANGED page_num
                  ELSE /\ page_num' = page_num + 1
                       /\ UNCHANGED <<cpc, existing_ids>>
    /\ UNCHANGED <<new_tournaments, ti, csv_file, matchVars, parseVars>>

\* lines 129-130
SkipCollected ==
    /\ cpc = "types"
    /\ ti <= Len(all_tournaments)
    /\ all_tournaments[ti].ID \in existing_ids
    /\ ti' = ti + 1
    /\ UNCHANGED <<cpc, page_num, all_tournaments, existing_ids, new_tournaments,
                   fetch_url, attempt, responses, fetch_result, csv_file, matchVars, parseVars>>

\* get_tournament_type, lines 62-85, once fetch_page has returned
get_tournament_type(id, result) ==
    IF result = "None" THEN ""
    ELSE IF IsNull(TournamentPage(id).type) THEN "" ELSE TournamentPage(id).type[1]

\* lines 131-137: one request of the fetch_page call of get_tournament_type and,
\* when the call ends with it, the new row
FetchType(reply) ==
    /\ cpc = "types"
    /\ ti <= Len(all_tournaments)
    /\ all_tournaments[ti].ID \notin existing_ids
    /\ reply # "empty"
    /\ Request(<<"detail", all_tournaments[ti].ID>>, reply)
    /\ LET f == fetch_page(attempt, reply)
           t == all_tournaments[ti]
       IN IF ~f.done
          THEN UNCHANGED <<new_tournaments, ti>>
          ELSE /\ new_tournaments' =
                      Append(new_tournaments,
                             [ID |-> t.ID, Name |-> t.Name,
                              Type |-> get_tournament_type(t.ID, f.result)])
               /\ ti' = ti + 1
    /\ UNCHANGED <<cpc, page_num, all_tournaments, existing_ids, csv_file, matchVars, parseVars>>

\* append_tournaments_to_csv, lines 97-105
append_tournaments_to_csv(file, tournaments) ==
    [exists |-> TRUE, rows |-> file.rows \o tournaments]

\* lines 138-142
AppendNew ==
    /\ cpc = "types"
    /\ ti > Len(all_tournaments)
    /\ cpc' = "done"
    /\ csv_file' = IF new_tournaments # <<>>
                   THEN append_tournaments_to_csv(csv_file, new_tournaments)
                   ELSE csv_file
    /\ UNCHANGED <<page_num, all_tournaments, existing_ids, new_tournaments, ti,
                   fetch_url, attempt, responses, fetch_result, matchVars, parseVars>>

NextCatalog ==
    \/ CatalogMain
    \/ \E reply \in Replies : FetchOverview(reply)
    \/ SkipCollected
    \/ \E reply \in Replies : FetchType(reply)
    \/ AppendNew

SpecCatalog == Init /\ [][NextCatalog]_vars

(***************************************************************************)
(* C2.  After any sequence of runs of the match script from no file, no    *)
(* two rows of the persisted dataset agree on the composite key.  (The     *)
(* claim as stated.)                                                       *)
(***************************************************************************)
C2_NoDuplicateKeys ==
    \A i, j \in DOMAIN output_file.rows :
        i < j => DedupKey(output_file.rows[i]) # DedupKey(output_file.rows[j])

(***************************************************************************)
(* C3.  No row of the persisted dataset has Stage = Playoff and            *)
(* GoalsPlayer1 = GoalsPlayer2, after any number of runs from no file.     *)
(***************************************************************************)
C3_NoPlayoffDraw ==
    \A i \in DOMAIN output_file.rows :
        ~(/\ output_file.rows[i].Stage = "Playoff"
          /\ output_file.rows[i].GoalsPlayer1 = output_file.rows[i].GoalsPlayer2)

\* a run collected a drawn playoff game and has written its frame
C3_Witness ==
    /\ pc = "done"
    /\ \E i \in DOMAIN all_matches :
           /\ all_matches[i].Stage = "Playoff"
           /\ all_matches[i].GoalsPlayer1 = all_matches[i].GoalsPlayer2
    /\ \E i \in DOMAIN output_file.rows : output_file.rows[i].Stage = "Playoff"

(***************************************************************************)
(* C4.  The row count of a merge.  N rows persisted, M incoming, K of the  *)
(* incoming sharing their key with a persisted row.                        *)
(***************************************************************************)
MergeN == Len(existing_df.rows)

MergeM == Len(df)

MergeK ==
    Cardinality({i \in DOMAIN df :
                   \E j \in DOMAIN existing_df.rows :
                       DedupKey(existing_df.rows[j]) = DedupKey(df[i])})

\* the rows of the concatenation whose key repeats that of an earlier row
MergeD ==
    LET both == existing_df.rows \o df
    IN Cardinality({i \in DOMAIN both :
                      \E j \in 1..(i - 1) : DedupKey(both[j]) = DedupKey(both[i])})

\* C4 as stated: the merge leaves exactly N + M - K rows
C4_RowCount == Len(output_file.rows) = MergeN + MergeM - MergeK

\* C4 as amended: with a file to merge into, one row per distinct key of the
\* N + M rows is left, that is N + M - D rows; with no file yet, all M rows
C4_RowCountPerKey ==
    IF existing_df.exists
    THEN /\ Len(output_file.rows) = MergeN + MergeM - MergeD
         /\ Len(output_file.rows) =
                Cardinality({DedupKey(r) : r \in Range(existing_df.rows) \cup Range(df)})
    ELSE Len(output_file.rows) = MergeM

\* a merge into a file of rows, of a batch that overlaps it
C4_Witness ==
    /\ existing_df.exists
    /\ MergeN >= 1
    /\ MergeM >= 1
    /\ MergeK >= 1
    /\ MergeK < MergeM

(***************************************************************************)
(* C5.  The merge step is idempotent: merging the batch just merged once   *)
(* more leaves the dataset as it is, rows and order.  (The claim as        *)
(* stated.)                                                                *)
(***************************************************************************)
C5_MergeIdempotent == MergedRows(output_file, df) = output_file.rows

(***************************************************************************)
(* C6.  A run only appends or drops incoming rows: the rows persisted      *)
(* before the run are all there after it, unchanged and in their order,    *)
(* and a persisted row survives an incoming row of its key.  (The claim as *)
(* stated.)                                                                *)
(***************************************************************************)
RECURSIVE IsSubsequence(_, _)
IsSubsequence(s, t) ==
    IF s = <<>> THEN TRUE
    ELSE IF t = <<>> THEN FALSE
    ELSE IF Head(s) = Head(t) THEN IsSubsequence(Tail(s), Tail(t))
    ELSE IsSubsequence(s, Tail(t))

C6_PersistedRowsKept ==
    (pc = "done" /\ existing_df.exists) =>
        /\ IsSubsequence(existing_df.rows, output_file.rows)
        /\ \A i \in DOMAIN output_file.rows :
               \/ \E j \in DOMAIN existing_df.rows :
                      output_file.rows[i] = existing_df.rows[j]
               \/ \A j \in DOMAIN existing_df.rows :
                      DedupKey(output_file.rows[i]) # DedupKey(existing_df.rows[j])

(***************************************************************************)
(* C7.  Persisting is atomic with respect to a crash: when the process is  *)
(* interrupted, the file is the complete previous dataset or the complete  *)
(* merged one.  (The claim as stated.)                                     *)
(***************************************************************************)
C7_AtomicPersist ==
    pc = "killed" =>
        \/ output_file = existing_df
        \/ output_file = FileOf(MergedRows(existing_df, df))

(***************************************************************************)
(* C9.  fetch_page of the catalog script makes no request after a response *)
(* (only after a connection-level exception), and a response of a          *)
(* non-success status ends the call with no result: the type of the        *)
(* tournament is then empty, the loop over the overview pages is over.     *)
(***************************************************************************)
C9_StatusIsFinal ==
    /\ \A k \in 1..(Len(responses) - 1) : responses[k] = "exception"
    /\ Len(responses) <= RETRY_LIMIT
    /\ (responses # <<>> /\ responses[Len(responses)] = "non200") =>
           /\ attempt = 0
           /\ fetch_result = "None"
           /\ fetch_url[1] = "archive" => cpc # "pages"
           /\ fetch_url[1] = "detail" =>
                  /\ new_tournaments # <<>>
                  /\ new_tournaments[Len(new_tournaments)].ID = fetch_url[2]
                  /\ new_tournaments[Len(new_tournaments)].Type = ""

\* a type lookup got a non-success status after a failed attempt, with one left
C9_Witness ==
    /\ responses = <<"exception", "non200">>
    /\ fetch_url[1] = "detail"
    /\ new_tournaments # <<>>
    /\ new_tournaments[Len(new_tournaments)].Type = ""

(***************************************************************************)
(* C11.  A tournament whose processing failed in one run of the match      *)
(* script is selected for fetching in the next run, whenever the catalog   *)
(* that run reads still lists it.  (The claim as stated.)  From a state    *)
(* where the script has ended only Main can take a step, and that step is  *)
(* the start of the next run.                                              *)
(***************************************************************************)
C11_FailedIsRetried ==
    [][ScriptEnded =>
          \A i \in DOMAIN printed :
              (\E c \in DOMAIN individual_tournaments' :
                   individual_tournaments'[c] = printed[i])
              => /\ pc' = "pool"
                 /\ \E u \in DOMAIN tournament_urls' : tournament_urls'[u] = printed[i]]_vars

(***************************************************************************)
(* C12.  Date normalisation never fails the batch: whatever the date texts *)
(* of the tournaments, get_tournament_matches returns its frame, and the   *)
(* rows of a tournament whose date text is no dd.mm.yyyy date (tournament  *)
(* 4, whose page has no date cell) carry a null Date.  (The claim as       *)
(* stated.)                                                                *)
(***************************************************************************)
C12_DatesNeverFail ==
    /\ pc # "raised"
    /\ pc = "returned" =>
           \A i \in DOMAIN all_matches :
               ~IsDate(all_matches[i].Date) =>
                   \E j \in DOMAIN df :
                       /\ df[j].TournamentID = all_matches[i].TournamentID
                       /\ IsNull(df[j].Date)

(***************************************************************************)
(* get_match_info on its own, called once on any stage document of a       *)
(* bounded shape.                                                          *)
(***************************************************************************)
\* the longest score text, in tokens
MaxScoreLen == 4

\* the tokens a score cell is written with
ScoreTokens == {"1", "2", ":", "-", "(OT)", "x", " ", "*"}

ScoreTexts == SeqsUpTo(ScoreTokens, MaxScoreLen)

\* the 'Tour' header of a results table: none, one without a number, "3 Tour"
Headers == {None, Some(<<"Tour">>), Some(<<"3", " ", "Tour">>)}

\* a round-robin page: one table.grTable with one tr[id^="match"]
RoundRobinDocument(header, text) ==
    << [kind |-> "grTable", saved |-> FALSE, header |-> header,
        rows |-> <<Fixture(PlayerA, PlayerC, text)>>] >>

ParseUrl == StageUrl(<<"1", "1">>)

\* get_match_info (lines 88-211) called on a round-robin page
ParseRoundRobin ==
    /\ document = <<>>
    /\ \E header \in Headers, text \in ScoreTexts :
            /\ document' = RoundRobinDocument(header, text)
            /\ match_info' = get_match_info(ParseUrl, RoundRobinDocument(header, text))
            /\ UNCHANGED <<matchVars, catalogVars>>

(***************************************************************************)
(* C13.  A score cell gives a record if and only if its text contains a    *)
(* colon and, with the decoration tokens removed, splits on ':' into       *)
(* exactly two integer tokens a and b; the record then has GoalsPlayer1 =  *)
(* a and GoalsPlayer2 = b, both non-negative, and Overtime = 'Yes' exactly *)
(* when the raw text contains '(OT)'.  (The claim as stated, for the one   *)
(* fixture row of a round-robin page.)                                     *)
(***************************************************************************)
C13_ScoreParsed ==
    (document # <<>> /\ document[1].kind = "grTable" /\ Len(document) = 1) =>
        LET text == document[1].rows[1].score[1]
            NoDecoration(c) == c \notin {"(OT)", "(W.O)", "nbsp", "*", "nl"}
            parts == split(SelectSeq(text, NoDecoration), ":")
            valid == /\ \E k \in DOMAIN text : text[k] = ":"
                     /\ Len(parts) = 2
                     /\ IntParsable(parts[1])
                     /\ IntParsable(parts[2])
        IN /\ ~match_info.raised
           /\ Len(match_info.matches) = IF valid THEN 1 ELSE 0
           /\ valid =>
                  /\ match_info.matches[1].GoalsPlayer1 = ParseInt(parts[1])
                  /\ match_info.matches[1].GoalsPlayer2 = ParseInt(parts[2])
                  /\ match_info.matches[1].GoalsPlayer1 >= 0
                  /\ match_info.matches[1].GoalsPlayer2 >= 0
                  /\ match_info.matches[1].Overtime = "Yes"
                         <=> \E k \in DOMAIN text : text[k] = "(OT)"

(***************************************************************************)
(* C14.  The RoundNumber of the rows of a returned batch, by Stage.        *)
(* RoundNumber is kept in units of 1/640: the interval (0, 1] is 1..640,   *)
(* an integer-valued float is a multiple of 640.                           *)
(***************************************************************************)
\* C14 as stated: every Playoff row has a RoundNumber in (0, 1], every
\* Round-Robin row a null or non-negative integer-valued one
C14_RoundNumberDomains ==
    pc = "returned" =>
        \A i \in DOMAIN df :
            /\ df[i].Stage = "Playoff" =>
                   /\ ~IsNull(df[i].RoundNumber)
                   /\ df[i].RoundNumber[1] > 0
                   /\ df[i].RoundNumber[1] <= 640
            /\ df[i].Stage = "Round-Robin" =>
                   \/ IsNull(df[i].RoundNumber)
                   \/ df[i].RoundNumber[1] >= 0 /\ df[i].RoundNumber[1] % 640 = 0

\* C14 as amended: a Playoff row has a null RoundNumber (its subheader names
\* no stage of the map) or one in (0, 1]; a Round-Robin row a null or
\* non-negative integer-valued one; and every row is of one of the two stages
C14_RoundNumberDomainsOrNull ==
    pc = "returned" =>
        \A i \in DOMAIN df :
            /\ df[i].Stage \in {"Playoff", "Round-Robin"}
            /\ df[i].Stage = "Playoff" =>
                   \/ IsNull(df[i].RoundNumber)
                   \/ df[i].RoundNumber[1] > 0 /\ df[i].RoundNumber[1] <= 640
            /\ df[i].Stage = "Round-Robin" =>
                   \/ IsNull(df[i].RoundNumber)
                   \/ df[i].RoundNumber[1] >= 0 /\ df[i].RoundNumber[1] % 640 = 0

\* a batch with Playoff rows with and without a RoundNumber and Round-Robin
\* rows with and without one
C14_Witness ==
    /\ pc = "returned"
    /\ \E i \in DOMAIN df : df[i].Stage = "Playoff" /\ IsNull(df[i].RoundNumber)
    /\ \E i \in DOMAIN df : df[i].Stage = "Playoff" /\ df[i].RoundNumber = Some(640)
    /\ \E i \in DOMAIN df : df[i].Stage = "Round-Robin" /\ IsNull(df[i].RoundNumber)
    /\ \E i \in DOMAIN df : df[i].Stage = "Round-Robin" /\ df[i].RoundNumber = Some(1280)

(***************************************************************************)
(* get_match_info on a playoff page of one subheader and one series.       *)
(***************************************************************************)
\* the most cells of a series row (game cells and the total)
MaxCells == 3

\* the subheader labels of the model
Labels ==
    {"Final", "FINAL", "Quarterfinal", "Semi-final", "Semifinal", "1/8 final",
     "1/16 final", "1/32 final", "1/64 final", "Match for the third place",
     "Placement"}

\* what a td[class^="ma_result_"] of a series can read
CellTexts ==
    { <<"3", ":", "1">>, <<"2", ":", "4", "(OT)">>, <<"2", ":", "2">>, <<"-">>,
      <<"5", ":", "x">> }

\* the player links of a series row: 'td[class^="ma_name"] a' finds both, or
\* only one when a player has no profile link
PlayerLinks == { <<PlayerA, PlayerB>>, <<PlayerB, PlayerD>>, <<PlayerA>> }

PlayoffDocument(label, players, scores) ==
    << [kind |-> "subheader", saved |-> FALSE, label |-> label],
       [kind |-> "gr_match", saved |-> FALSE,
        series |-> << [players |-> players, scores |-> scores] >>] >>

\* get_match_info (lines 88-211) called on such a page
ParsePlayoff ==
    /\ document = <<>>
    /\ \E label \in Labels, players \in PlayerLinks, scores \in SeqsUpTo(CellTexts, MaxCells) :
            /\ document' = PlayoffDocument(label, players, scores)
            /\ match_info' = get_match_info(ParseUrl, PlayoffDocument(label, players, scores))
            /\ UNCHANGED <<matchVars, catalogVars>>

(***************************************************************************)
(* C15.  get_playoff_stage_fraction gives every subheader label the        *)
(* fraction of the stage it names: Final 1.0, Match for the third place    *)
(* 0.9, Semifinal (also written Semi-final) 0.5, Quarterfinal 0.25, 1/8,   *)
(* 1/16, 1/32, 1/64 their value, any other label null.  (The claim as      *)
(* stated, read off the RoundNumber of the records of a playoff page of    *)
(* one subheader.)                                                         *)
(***************************************************************************)
NamedFraction(label) ==
    CASE label \in {"Final", "FINAL"} -> Some(Float(1, 1))
      [] label = "Match for the third place" -> Some(Float(9, 10))
      [] label \in {"Semifinal", "Semi-final"} -> Some(Float(1, 2))
      [] label = "Quarterfinal" -> Some(Float(1, 4))
      [] label = "1/8 final" -> Some(Float(1, 8))
      [] label = "1/16 final" -> Some(Float(1, 16))
      [] label = "1/32 final" -> Some(Float(1, 32))
      [] label = "1/64 final" -> Some(Float(1, 64))
      [] OTHER -> None

C15_FractionOfLabel ==
    (Len(document) = 2 /\ document[1].kind = "subheader") =>
        \A i \in DOMAIN match_info.matches :
            match_info.matches[i].RoundNumber = NamedFraction(document[1].label)

(***************************************************************************)
(* C16.  Of a playoff series row with n score cells the last cell gives no *)
(* record, and every one of the first n-1 cells that parses as a score     *)
(* gives exactly one record, in the order of the cells, with               *)
(* PlayoffGameNumber the position of the cell, Stage = Playoff and the     *)
(* fraction of the subheader as RoundNumber; a cell that does not parse is *)
(* skipped alone.  (The claim as stated, for a page of one subheader and   *)
(* one series.)                                                            *)
(***************************************************************************)
C16_SeriesRecords ==
    (Len(document) = 2 /\ document[1].kind = "subheader") =>
        LET scores == document[2].series[1].scores
            games == {g \in 1..(Len(scores) - 1) : ~IsNull(ParseScore(scores[g]))}
            records == match_info.matches
        IN /\ Len(records) = Cardinality(games)
           /\ \A i \in DOMAIN records :
                  /\ records[i].Stage = "Playoff"
                  /\ records[i].RoundNumber = get_playoff_stage_fraction(document[1].label)
                  /\ ~IsNull(records[i].PlayoffGameNumber)
                  /\ records[i].PlayoffGameNumber[1] \in games
                  /\ records[i].GoalsPlayer1 =
                         ParseScore(scores[records[i].PlayoffGameNumber[1]])[1].g1
                  /\ records[i].GoalsPlayer2 =
                         ParseScore(scores[records[i].PlayoffGameNumber[1]])[1].g2
           /\ \A i, j \in DOMAIN records :
                  i < j => records[i].PlayoffGameNumber[1] < records[j].PlayoffGameNumber[1]

(***************************************************************************)
(* get_match_info on a page of several elements of both formats, some of   *)
(* them inside the saved-matches section.                                  *)
(***************************************************************************)
\* the most elements of such a page
MaxElements == 3

Elements ==
    LET serie == [players |-> <<PlayerA, PlayerB>>,
                  scores |-> << <<"3", ":", "1">>, <<"1", ":", "0">> >>]
        table(saved) ==
            [kind |-> "grTable", saved |-> saved, header |-> Some(<<"3", " ", "Tour">>),
             rows |-> <<Fixture(PlayerA, PlayerC, <<"1", ":", "2">>)>>]
    IN { [kind |-> "subheader", saved |-> FALSE, label |-> "Final"],
         [kind |-> "gr_match", saved |-> FALSE, series |-> <<serie>>],
         [kind |-> "gr_match", saved |-> TRUE, series |-> <<serie>>],
         [kind |-> "gr_match", saved |-> FALSE, series |-> <<>>],
         table(FALSE), table(TRUE) }

ParseMixed ==
    /\ document = <<>>
    /\ \E doc \in SeqsUpTo(Elements, MaxElements) :
            /\ doc # <<>>
            /\ document' = doc
            /\ match_info' = get_match_info(ParseUrl, doc)
            /\ UNCHANGED <<matchVars, catalogVars>>

NextParse == ParseRoundRobin \/ ParsePlayoff \/ ParseMixed

SpecParse == Init /\ [][NextParse]_vars

(***************************************************************************)
(* C19.  A stage document is treated as Playoff if and only if, outside    *)
(* its saved-matches section, it holds a series-container row; one         *)
(* extractor runs, so every record of the document carries that one Stage  *)
(* tag; a Round-Robin record has a null PlayoffGameNumber, a Playoff       *)
(* record one that is at least 1.                                          *)
(***************************************************************************)
C19_OneExtractor ==
    LET playoff == \E k \in DOMAIN document :
                       /\ ~document[k].saved
                       /\ document[k].kind = "gr_match"
                       /\ document[k].series # <<>>
    IN \A i \in DOMAIN match_info.matches :
           LET record == match_info.matches[i]
           IN /\ record.Stage = IF playoff THEN "Playoff" ELSE "Round-Robin"
              /\ record.Stage = "Round-Robin" => IsNull(record.PlayoffGameNumber)
              /\ record.Stage = "Playoff" =>
                     /\ ~IsNull(record.PlayoffGameNumber)
                     /\ record.PlayoffGameNumber[1] >= 1

\* a page with a results table and, in its saved-matches section only, a
\* series: its records are those of the table
C19_Witness ==
    /\ \E k \in DOMAIN document :
           document[k].kind = "gr_match" /\ document[k].saved /\ document[k].series # <<>>
    /\ \E k \in DOMAIN document : document[k].kind = "subheader"
    /\ \E k \in DOMAIN document : document[k].kind = "grTable" /\ ~document[k].saved
    /\ match_info.matches # <<>>
    /\ \A i \in DOMAIN match_info.matches : match_info.matches[i].Stage = "Round-Robin"

(***************************************************************************)
(* C17.  The row order of the returned batch is canonical: whatever the    *)
(* order in which the workers complete, the frame is the one that          *)
(* collecting the results in the order of submission gives.  (The claim as *)
(* stated.)                                                                *)
(***************************************************************************)
C17_CanonicalOrder ==
    pc = "returned" =>
        df = BuildFrame(Concat([i \in DOMAIN task |-> CollectedRows(task[i])])).df

(***************************************************************************)
(* C18.  The requests of one tournament task, in order: first the          *)
(* tournament page, then the pages of the enumerated stages that are not   *)
(* in existing_stage_ids, one after the other in the order of enumeration. *)
(* A task whose tournament page gives the type 'Team' ends after that one  *)
(* request with no tuple; a page without a type cell is processed as any   *)
(* other tournament.                                                       *)
(***************************************************************************)
C18_StepOrder ==
    \A i \in DOMAIN task :
        LET t == task[i]
            NotIngested(stage) == stage.stage_id \notin existing_stage_ids
            due == SelectSeq(stage_data(t.page), NotIngested)
            rest == IF t.requests = <<>> THEN <<>> ELSE Tail(t.requests)
            team == t.page.type \in {Some("Team"), Some("TEAM"), Some("team")}
        IN /\ t.state = "queued" <=> t.requests = <<>>
           /\ t.requests # <<>> => t.requests[1] = TournamentUrl(tournament_urls[i])
           /\ Len(rest) <= Len(due)
           /\ \A k \in DOMAIN rest : rest[k] = StageUrl(due[k].stage_id)
           /\ (t.state = "returned" /\ ~team) => Len(rest) = Len(due)
           /\ team => /\ t.state = "returned"
                      /\ rest = <<>>
                      /\ t.stage_matches = <<>>
           /\ (IsNull(t.page.type) /\ t.state \in {"running", "returned"}) =>
                  t.stages = stage_data(t.page)

\* a team tournament skipped and a tournament without a type cell scraped
C18_Witness ==
    \E i, j \in DOMAIN task :
        /\ task[i].page.type = Some("Team")
        /\ task[i].state = "returned"
        /\ Len(task[i].requests) = 1
        /\ IsNull(task[j].page.type)
        /\ task[j].state = "returned"
        /\ Len(task[j].requests) = 2
        /\ task[j].stage_matches # <<>>

(***************************************************************************)
(* C20.  Once a row of a tournament is in the persisted dataset, no later  *)
(* run of the match script fetches a page of that tournament: no task of a *)
(* run is for a tournament with a row in the file the run read, the        *)
(* already-ingested set handed to get_tournament_matches is empty, and a   *)
(* finished run has added no stage to a tournament that was in the file.   *)
(***************************************************************************)
C20_PersistedNeverRefetched ==
    /\ existing_stage_ids = {}
    /\ \A i \in DOMAIN task : \A r \in DOMAIN existing_df.rows :
           existing_df.rows[r].TournamentID # Some(DigitsToInt(tournament_urls[i]))
    /\ pc = "done" =>
           \A r \in DOMAIN output_file.rows :
               (\E e \in DOMAIN existing_df.rows :
                    existing_df.rows[e].TournamentID = output_file.rows[r].TournamentID)
               => \E e \in DOMAIN existing_df.rows :
                      /\ existing_df.rows[e].TournamentID = output_file.rows[r].TournamentID
                      /\ existing_df.rows[e].StageID = output_file.rows[r].StageID

\* tournament 1 was persisted without its stage 12 (whose page came back
\* empty); a later run reads a catalog that lists it and scrapes nothing
C20_Witness ==
    /\ pc = "done"
    /\ individual_tournaments = << <<"1">> >>
    /\ tournament_urls = <<>>
    /\ existing_df.exists
    /\ output_file = existing_df
    /\ \E r \in DOMAIN output_file.rows : output_file.rows[r].StageID = Some(11)
    /\ \A r \in DOMAIN output_file.rows : output_file.rows[r].StageID # Some(12)

(***************************************************************************)
(* C21.  After any sequence of runs of the catalog script, the catalog     *)
(* file holds at most one row per tournament ID: no two rows of it carry   *)
(* the same ID, and no row a run is about to append carries an ID the file *)
(* already held when the run read it.  (The claim as stated.)              *)
(***************************************************************************)
C21_OneRowPerId ==
    /\ \A i, j \in DOMAIN csv_file.rows :
           csv_file.rows[i].ID = csv_file.rows[j].ID => i = j
    /\ cpc = "types" =>
           \A i \in DOMAIN new_tournaments : new_tournaments[i].ID \notin existing_ids

====
